---- MODULE Spec2Model ----
(***************************************************************************)
(* Snapshot-based state recovery of the external node                      *)
(* (core/lib/zksync_core/src/sync_layer/snapshots.rs).                     *)
(*                                                                         *)
(* The persistent stores (Postgres tables, the RocksDB Merkle tree, the    *)
(* progress record) survive a process abort; the fields of SnapshotApplier *)
(* and the position in load_snapshot do not.  Every table is a bag of the  *)
(* rows the code asked the store to insert, so a row written twice is      *)
(* visible as a row with two copies.                                       *)
(*                                                                         *)
(* Two further components have specifications of their own over the same   *)
(* variables: MainNodeBatchFeeInputFetcher (SpecFetcher, SpecFetcherFair)  *)
(* and ConsensusLayer::wire (SpecConsensus).  Each specification leaves    *)
(* the variables of the other components as they start.                    *)
(***************************************************************************)
EXTENDS Integers, Sequences, FiniteSets, Bags, TLC

(* ---------------------------- bounds ----------------------------------- *)

\* chunks per snapshot header
NumChunks == 2

\* storage-log entries per chunk payload
LogsPerChunk == 2

\* process aborts (kill, panic of an unwrap) while load_snapshot is running
MaxCrashes == 1

(* ------------------------- Option<T> ----------------------------------- *)

None == <<>>

Some(x) == <<x>>

IsSome(o) == Len(o) = 1

IsNone(o) == Len(o) = 0

Unwrap(o) == o[1]

(* ------------------ what the peer and the blob store hold -------------- *)

\* the snapshots the main node may publish, named by their l1 batch number
Snapshots == {1, 2}

\* SnapshotHeader: l1_batch_number, miniblock_number, chunks (ascending ids)
SnapshotHeader(s) ==
    [l1_batch_number |-> s,
     miniblock_number |-> 10 * s,
     chunks |-> [i \in 1..NumChunks |-> [chunk_id |-> i - 1]]]

\* SnapshotChunk.storage_logs of chunk c of snapshot s: key, value, enumeration_index
ChunkStorageLogs(s, c) ==
    [i \in 1..LogsPerChunk |->
        [key |-> c * LogsPerChunk + i,
         value |-> 100 * s + c * LogsPerChunk + i,
         enumeration_index |-> c * LogsPerChunk + i]]

\* SnapshotChunk.factory_deps: chunk 0 carries none, every other chunk one
ChunkFactoryDeps(s, c) ==
    IF c = 0 THEN {} ELSE {[bytecode_hash |-> 1000 * s + c, bytecode |-> c]}

SnapshotChunk(s, c) ==
    [snapshot |-> s, chunk_id |-> c,
     factory_deps |-> ChunkFactoryDeps(s, c),
     storage_logs |-> ChunkStorageLogs(s, c)]

Range(f) == {f[i] : i \in DOMAIN f}

(* ----------------------------- state ----------------------------------- *)

VARIABLES
    \* persistent
    db_status,          \* applied_snapshot_status row: Option<AppliedSnapshotStatus>
    l1_batches,         \* bag of l1 batch numbers (insert_l1_batch)
    miniblocks,         \* bag of miniblock numbers (insert_miniblock)
    protocol_versions,  \* bag of saved protocol versions
    factory_deps,       \* bag of [miniblock, bytecode_hash]
    storage_logs,       \* bag of [miniblock, kind, key, value]
    initial_writes,     \* bag of [l1_batch_number, key]
    tree_entries,       \* bag of [version, key, value, leaf_index]
    finalize_calls,     \* calls of MerkleTreeRecovery::finalize
    extends_after_finalize, \* calls of extend made after a finalize
    blob_gets,          \* bag of [snapshot, chunk_id] fetched from the blob store
    state_keeper_runs,  \* completed state_keeper.run(true)
    metadata_calculator_runs, \* completed metadata_calculator.run(..)
    clear_calls,        \* calls of clear_dummy_snapshot_headers
    \* volatile (lost when the process aborts)
    pc,                 \* position in load_from_snapshot_if_needed
    new_result,         \* what SnapshotApplier::new returned: "Ok", "Canceled" or "none"
    applied_snapshot_status, \* self.applied_snapshot_status (Option while not built)
    snapshot,           \* self.snapshot: Option<snapshot id>
    peer_response,      \* snapshot_response of new(): None until the peer answered,
                        \* then Some(Option<snapshot id>)
    recovery,           \* self.recovery: Option<recovered_version>
    chunk_idx,          \* position of the for loop in snapshot.chunks (0: not in the loop)
    chunk,              \* storage_snapshot_chunk: Option<SnapshotChunk>
    crashes,            \* process aborts so far
    crash_in_chunk,     \* some abort happened inside sync_single_chunk
    stop_signal         \* the node's stop signal was raised while this process runs

\* MainNodeBatchFeeInputFetcher (l1_gas_price/main_node_fetcher.rs)
VARIABLES
    fee_model_output,   \* contents of self.fee_model_output: RwLock<MainNodeFeeParams>
    write_guard,        \* the run task holds the write guard of fee_model_output
    run_pc,             \* position of run
    run_result,         \* what run returned: "none" while it runs, then "Ok"
    stop_receiver,      \* value seen by *stop_receiver.borrow()
    main_node_fee_params, \* the local of run: Option<MainNodeFeeParams>
    reader_pc,          \* a caller of get_fee_model_params: "idle" or "reading"
    returned_params,    \* what the last get_fee_model_params call cloned: Option
    last_fetched,       \* parameters of the most recent successful fetch: Option
    prev_fetched,       \* parameters of the successful fetch before that one: Option
    fetches_after_stop  \* fetches answered after the stop signal was set (counted to 2)

fetcher == <<fee_model_output, write_guard, run_pc, run_result, stop_receiver,
             main_node_fee_params, reader_pc, returned_params, last_fetched,
             prev_fetched, fetches_after_stop>>

\* ConsensusLayer and the ServiceContext it is wired into
\* (node_framework/src/implementations/layers/consensus.rs)
VARIABLES
    resources,          \* resources the context can provide to get_resource
    sender_taken,       \* the ActionQueueSender was taken out of its resource
    tasks,              \* tasks added to the context, in the order of add_task
    wire_calls,         \* calls of ConsensusLayer::wire so far
    wire_layer,         \* the layer of the last call: [mode, config, secrets]
    wire_result         \* what the last call returned: "none" before the first call

wiring == <<resources, sender_taken, tasks, wire_calls, wire_layer, wire_result>>

persistent == <<db_status, l1_batches, miniblocks, protocol_versions, factory_deps,
                storage_logs, initial_writes, tree_entries, finalize_calls,
                extends_after_finalize, blob_gets, state_keeper_runs,
                metadata_calculator_runs, clear_calls>>

volatile == <<pc, new_result, applied_snapshot_status, snapshot, peer_response,
              recovery, chunk_idx, chunk>>

vars == <<persistent, volatile, crashes, crash_in_chunk, stop_signal, fetcher, wiring>>

\* every store a recovery writes, the progress record included
stores == <<db_status, l1_batches, miniblocks, protocol_versions, factory_deps,
            storage_logs, initial_writes, tree_entries, finalize_calls,
            extends_after_finalize>>

(* ------------- MainNodeBatchFeeInputFetcher: data and new() ------------- *)

\* distinct answers the main node can give to get_main_node_fee_params
NumFeeParams == 2

\* the prices new() stores, in units of 10^9 wei
DefaultL1GasPrice == 1
DefaultL1PubdataPrice == 17

\* MainNodeFeeParams as new() builds it
DefaultFeeParams ==
    [l1_gas_price |-> DefaultL1GasPrice,
     l1_pubdata_price |-> DefaultL1PubdataPrice,
     config |-> 0]

\* the i-th answer of the main node; no field of it equals a field of another
\* answer or of the defaults
MainNodeFeeParams(i) ==
    [l1_gas_price |-> 100 * i + 2,
     l1_pubdata_price |-> 100 * i + 34,
     config |-> i]

FeeParamsAnswers == {MainNodeFeeParams(i) : i \in 1..NumFeeParams}

\* MainNodeBatchFeeInputFetcher::new and the start of run
FetcherNew ==
    /\ fee_model_output = DefaultFeeParams
    /\ write_guard = FALSE
    /\ run_pc = "check_stop"
    /\ run_result = "none"
    /\ stop_receiver = FALSE
    /\ main_node_fee_params = None
    /\ reader_pc = "idle"
    /\ returned_params = None
    /\ last_fetched = None
    /\ prev_fetched = None
    /\ fetches_after_stop = 0

(* ------------------ ConsensusLayer: data and context ------------------- *)

\* calls of ConsensusLayer::wire on one ServiceContext
MaxWireCalls == 2

\* the resources wire asks the context for
ResourceNames ==
    {"MasterPoolResource", "MainNodeClientResource", "SyncStateResource",
     "ActionQueueSenderResource"}

\* enum Mode
Modes == {"Main", "External"}

\* ConsensusLayer { mode, config, secrets }: an Option field is None or Some("given")
Layers ==
    [mode : Modes, config : {None, Some("given")}, secrets : {None, Some("given")}]

\* a context nothing was added to
ContextNew ==
    /\ resources = {}
    /\ sender_taken = FALSE
    /\ tasks = <<>>
    /\ wire_calls = 0
    /\ wire_layer = None
    /\ wire_result = "none"

\* the context as earlier layers leave it: any of the resources may have been
\* inserted; the sender is still in its resource
ContextBuilt ==
    /\ resources \in SUBSET ResourceNames
    /\ sender_taken = FALSE
    /\ tasks = <<>>
    /\ wire_calls = 0
    /\ wire_layer = None
    /\ wire_result = "none"

\* the node before load_from_snapshot_if_needed
RecoveryInit ==
    /\ db_status = None
    /\ l1_batches \in {EmptyBag, SetToBag({0})}
    /\ miniblocks = EmptyBag
    /\ protocol_versions = EmptyBag
    /\ factory_deps = EmptyBag
    /\ storage_logs = EmptyBag
    /\ initial_writes = EmptyBag
    /\ tree_entries = EmptyBag
    /\ finalize_calls = 0
    /\ extends_after_finalize = 0
    /\ blob_gets = EmptyBag
    /\ state_keeper_runs = 0
    /\ metadata_calculator_runs = 0
    /\ clear_calls = 0
    /\ pc = "start"
    /\ new_result = "none"
    /\ applied_snapshot_status = None
    /\ snapshot = None
    /\ peer_response = None
    /\ recovery = None
    /\ chunk_idx = 0
    /\ chunk = None
    /\ crashes = 0
    /\ crash_in_chunk = FALSE
    /\ stop_signal = FALSE

Init ==
    /\ RecoveryInit
    /\ FetcherNew
    /\ ContextNew

VolatileReset ==
    /\ new_result' = "none"
    /\ applied_snapshot_status' = None
    /\ snapshot' = None
    /\ peer_response' = None
    /\ recovery' = None
    /\ chunk_idx' = 0
    /\ chunk' = None

(* --------------------- SnapshotApplier::new ---------------------------- *)

\* blocks_dal().is_genesis_needed(): no l1 batch has been inserted yet
IsGenesisNeeded == BagCardinality(l1_batches) = 0

\* new() without its second early return (the finished record is not looked at)
PreconditionCanceledGenesisOnly(st, genesis_needed) ==
    ~genesis_needed /\ IsNone(st)

\* the two early returns of new(): Err(Canceled(..))
PreconditionCanceled(st, genesis_needed) ==
    \/ (~genesis_needed /\ IsNone(st))
    \/ (IsSome(st) /\ Unwrap(st).is_finished)

\* new() that starts from a fresh record whatever is stored
StatusForNewAlwaysFresh(st, l1_batch_number) ==
    [l1_batch_number |-> l1_batch_number,
     is_finished |-> FALSE,
     last_finished_chunk_id |-> None]

\* the record new() keeps: a fresh one if none was stored, else the stored one
StatusForNew(st, l1_batch_number) ==
    IF IsNone(st)
    THEN [l1_batch_number |-> l1_batch_number,
          is_finished |-> FALSE,
          last_finished_chunk_id |-> None]
    ELSE Unwrap(st)

NewReturns(result) ==
    /\ new_result' = result
    /\ pc' = "new_returned"

\* lines 69-83: recovery is inapplicable or already done
NewCanceledPrecondition ==
    /\ pc = "start"
    /\ PreconditionCanceled(db_status, IsGenesisNeeded)
    /\ NewReturns("Canceled")
    /\ UNCHANGED <<persistent, applied_snapshot_status, snapshot, peer_response, recovery,
                   chunk_idx, chunk, crashes, crash_in_chunk, stop_signal, fetcher, wiring>>

\* line 85: fetch_newest_snapshot().await.unwrap() on an Err panics
NewPeerFailure ==
    /\ pc = "start"
    /\ ~PreconditionCanceled(db_status, IsGenesisNeeded)
    /\ pc' = "aborted"
    /\ UNCHANGED <<persistent, new_result, applied_snapshot_status, snapshot, peer_response,
                   recovery, chunk_idx, chunk, crashes, crash_in_chunk, stop_signal, fetcher, wiring>>

\* new() that stores a record before it looks at the peer's answer
NewNoSnapshotStoresRecord ==
    /\ pc = "start"
    /\ ~PreconditionCanceled(db_status, IsGenesisNeeded)
    /\ peer_response' = Some(None)
    /\ db_status' = Some(StatusForNew(db_status, 0))
    /\ NewReturns("Canceled")
    /\ UNCHANGED <<l1_batches, miniblocks, protocol_versions, factory_deps,
                   storage_logs, initial_writes, tree_entries, finalize_calls,
                   extends_after_finalize, blob_gets, state_keeper_runs,
                   metadata_calculator_runs, clear_calls, applied_snapshot_status,
                   snapshot, recovery, chunk_idx, chunk, crashes, crash_in_chunk,
                   stop_signal, fetcher, wiring>>

\* lines 86-88: the peer has no snapshot
NewNoSnapshot ==
    /\ pc = "start"
    /\ ~PreconditionCanceled(db_status, IsGenesisNeeded)
    /\ peer_response' = Some(None)
    /\ NewReturns("Canceled")
    /\ UNCHANGED <<persistent, applied_snapshot_status, snapshot, recovery,
                   chunk_idx, chunk, crashes, crash_in_chunk, stop_signal, fetcher, wiring>>

\* lines 108-109: snapshots_from_env() fails, `?` returns Err(Fatal(..))
NewFatalObjectStore ==
    /\ pc = "start"
    /\ ~PreconditionCanceled(db_status, IsGenesisNeeded)
    /\ \E s \in Snapshots :
        /\ peer_response' = Some(Some(s))
        /\ NewReturns("Fatal")
        /\ UNCHANGED <<persistent, applied_snapshot_status, snapshot, recovery,
                       chunk_idx, chunk, crashes, crash_in_chunk, stop_signal, fetcher, wiring>>

\* lines 89-127: a snapshot was found; the record is stored and Self is built
NewOk ==
    /\ pc = "start"
    /\ ~PreconditionCanceled(db_status, IsGenesisNeeded)
    /\ \E s \in Snapshots :
        LET l1_batch_number == SnapshotHeader(s).l1_batch_number
            status == StatusForNew(db_status, l1_batch_number)
        IN  /\ recovery' = Some(l1_batch_number)
            /\ db_status' = Some(status)
            /\ applied_snapshot_status' = Some(status)
            /\ snapshot' = Some(s)
            /\ peer_response' = Some(Some(s))
            /\ NewReturns("Ok")
    /\ UNCHANGED <<l1_batches, miniblocks, protocol_versions, factory_deps,
                   storage_logs, initial_writes, tree_entries, finalize_calls,
                   extends_after_finalize, blob_gets, state_keeper_runs,
                   metadata_calculator_runs, clear_calls, chunk_idx, chunk, crashes, crash_in_chunk, stop_signal, fetcher, wiring>>

New ==
    \/ NewCanceledPrecondition
    \/ NewPeerFailure
    \/ NewNoSnapshot
    \/ NewFatalObjectStore
    \/ NewOk

(* ------------------- the order of load_snapshot ------------------------ *)

\* load_snapshot without the insert of the placeholder miniblock header
PreambleStepsNoMiniblock ==
    <<"insert_dummy_l1_batch_metadata">>

\* load_snapshot, lines 410-412
PreambleSteps ==
    <<"insert_dummy_miniblock_header", "insert_dummy_l1_batch_metadata">>

\* sync_single_chunk storing the cursor before the tree is extended
ChunkStepsCursorBeforeTree ==
    <<"get", "sync_factory_deps_chunk", "sync_storage_logs_chunk",
      "sync_initial_writes_chunk", "set_applied_snapshot_status", "sync_tree_chunk">>

\* sync_single_chunk extending the tree before the dedup records are written
ChunkStepsTreeBeforeDedup ==
    <<"get", "sync_factory_deps_chunk", "sync_storage_logs_chunk",
      "sync_tree_chunk", "sync_initial_writes_chunk", "set_applied_snapshot_status">>

\* sync_single_chunk without the call of sync_tree_chunk
ChunkStepsTreeSkipped ==
    <<"get", "sync_factory_deps_chunk", "sync_storage_logs_chunk",
      "sync_initial_writes_chunk", "set_applied_snapshot_status">>

\* sync_single_chunk, lines 340-357
ChunkSteps ==
    <<"get", "sync_factory_deps_chunk", "sync_storage_logs_chunk",
      "sync_initial_writes_chunk", "sync_tree_chunk", "set_applied_snapshot_status">>

\* finalize_applying_snapshot storing is_finished before the bootstrap has run
FinalizeStepsMarkBeforeBootstrap ==
    <<"finalize", "mark_finished", "state_keeper_run", "metadata_calculator_run",
      "clear_dummy_headers">>

\* finalize_applying_snapshot, lines 370-404
FinalizeSteps ==
    <<"finalize", "state_keeper_run", "metadata_calculator_run",
      "mark_finished", "clear_dummy_headers">>

IndexOf(seq, x) == CHOOSE i \in 1..Len(seq) : seq[i] = x

IsLast(seq, x) == IndexOf(seq, x) = Len(seq)

Following(seq, x) == seq[IndexOf(seq, x) + 1]

Header == SnapshotHeader(Unwrap(snapshot))

\* the statement that runs after `step`: <<pc, chunk_idx>>
Continuation(step) ==
    IF step \in Range(PreambleSteps)
    THEN IF ~IsLast(PreambleSteps, step) THEN <<Following(PreambleSteps, step), 0>>
         ELSE IF Len(Header.chunks) > 0 THEN <<ChunkSteps[1], 1>>
         ELSE <<FinalizeSteps[1], 0>>
    ELSE IF step \in Range(ChunkSteps)
    THEN IF ~IsLast(ChunkSteps, step) THEN <<Following(ChunkSteps, step), chunk_idx>>
         ELSE IF chunk_idx < Len(Header.chunks) THEN <<ChunkSteps[1], chunk_idx + 1>>
         ELSE <<FinalizeSteps[1], 0>>
    ELSE IF ~IsLast(FinalizeSteps, step) THEN <<Following(FinalizeSteps, step), 0>>
         ELSE <<"done", 0>>

\* control moves on; the chunk payload is dropped when sync_single_chunk returns
Advance(step) ==
    /\ pc' = Continuation(step)[1]
    /\ chunk_idx' = Continuation(step)[2]
    /\ chunk' = IF step \in Range(ChunkSteps) /\ ~IsLast(ChunkSteps, step)
                THEN chunk ELSE None

\* load_from_snapshot_if_needed, lines 431-441: SnapshotApplier::new(..).await.unwrap()
UnwrapNew ==
    /\ pc = "new_returned"
    /\ IF new_result = "Ok"
       THEN /\ pc' = PreambleSteps[1]
            /\ UNCHANGED <<new_result, applied_snapshot_status, snapshot, peer_response, recovery,
                           chunk_idx, chunk>>
       ELSE /\ pc' = "aborted"
            /\ VolatileReset
    /\ UNCHANGED <<persistent, crashes, crash_in_chunk, stop_signal, fetcher, wiring>>

(* ------------------------ load_snapshot -------------------------------- *)

Add(bag, rows) == bag (+) SetToBag(rows)

\* lines 211-243: fetch_l2_block, sync_protocol_version, insert_miniblock, update_hashes
\* (the block's protocol version is named by the snapshot it belongs to)
InsertDummyMiniblockHeader ==
    /\ pc = "insert_dummy_miniblock_header"
    /\ protocol_versions' = Add(protocol_versions, {Unwrap(snapshot)})
    /\ miniblocks' = Add(miniblocks, {Header.miniblock_number})
    /\ Advance("insert_dummy_miniblock_header")
    /\ UNCHANGED <<db_status, l1_batches, factory_deps, storage_logs, initial_writes,
                   tree_entries, finalize_calls, extends_after_finalize, blob_gets,
                   state_keeper_runs, metadata_calculator_runs, clear_calls,
                   new_result, applied_snapshot_status, snapshot, peer_response, recovery, crashes, crash_in_chunk, stop_signal, fetcher, wiring>>

\* lines 245-265: insert_l1_batch, save_l1_batch_metadata, mark_miniblocks_as_executed
InsertDummyL1BatchMetadata ==
    /\ pc = "insert_dummy_l1_batch_metadata"
    /\ l1_batches' = Add(l1_batches, {Header.l1_batch_number})
    /\ Advance("insert_dummy_l1_batch_metadata")
    /\ UNCHANGED <<db_status, miniblocks, protocol_versions, factory_deps, storage_logs,
                   initial_writes, tree_entries, finalize_calls, extends_after_finalize,
                   blob_gets, state_keeper_runs, metadata_calculator_runs, clear_calls,
                   new_result, applied_snapshot_status, snapshot, peer_response, recovery, crashes, crash_in_chunk, stop_signal, fetcher, wiring>>

\* a for loop that hands the first descriptor to every iteration
ChunkMetadataAlwaysFirst == Header.chunks[1]

\* the descriptor the for loop of load_snapshot is at
ChunkMetadata == Header.chunks[chunk_idx]

\* lines 323-328: the condition under which "Skipping processing chunk" is logged;
\* the branch only logs, control always reaches the blob-store fetch
SkipMessageLogged(st, chunk_id) ==
    /\ IsSome(st.last_finished_chunk_id)
    /\ chunk_id > Unwrap(st.last_finished_chunk_id)

\* lines 320-340: the chunk is fetched whatever the progress record says
Get ==
    /\ pc = "get"
    /\ LET chunk_id == ChunkMetadata.chunk_id
       IN  /\ blob_gets' = Add(blob_gets, {[snapshot |-> Unwrap(snapshot),
                                            chunk_id |-> chunk_id]})
           /\ pc' = Continuation("get")[1]
           /\ chunk_idx' = Continuation("get")[2]
           /\ chunk' = Some(SnapshotChunk(Unwrap(snapshot), chunk_id))
    /\ UNCHANGED <<db_status, l1_batches, miniblocks, protocol_versions, factory_deps,
                   storage_logs, initial_writes, tree_entries, finalize_calls,
                   extends_after_finalize, state_keeper_runs, metadata_calculator_runs,
                   clear_calls, new_result, applied_snapshot_status, snapshot, peer_response, recovery,
                   crashes, crash_in_chunk, stop_signal, fetcher, wiring>>

\* insert_factory_deps(miniblock_number, ..) rows of a chunk payload
FactoryDepRows(miniblock_number, deps) ==
    {[miniblock |-> miniblock_number, bytecode_hash |-> d.bytecode_hash] : d \in deps}

\* lines 306-317: nothing is written for a chunk without factory deps
SyncFactoryDepsChunk ==
    /\ pc = "sync_factory_deps_chunk"
    /\ LET deps == Unwrap(chunk).factory_deps
       IN  factory_deps' = IF deps # {}
                           THEN Add(factory_deps,
                                    FactoryDepRows(Header.miniblock_number, deps))
                           ELSE factory_deps
    /\ Advance("sync_factory_deps_chunk")
    /\ UNCHANGED <<db_status, l1_batches, miniblocks, protocol_versions, storage_logs,
                   initial_writes, tree_entries, finalize_calls, extends_after_finalize,
                   blob_gets, state_keeper_runs, metadata_calculator_runs, clear_calls,
                   new_result, applied_snapshot_status, snapshot, peer_response, recovery, crashes, crash_in_chunk, stop_signal, fetcher, wiring>>

\* lines 278-285: every entry becomes a Write log under the snapshot's miniblock
StorageLogRows(miniblock_number, logs) ==
    {[miniblock |-> miniblock_number, kind |-> "Write",
      key |-> l.key, value |-> l.value] : l \in Range(logs)}

\* lines 276-290
SyncStorageLogsChunk ==
    /\ pc = "sync_storage_logs_chunk"
    /\ storage_logs' = Add(storage_logs,
                           StorageLogRows(Header.miniblock_number,
                                          Unwrap(chunk).storage_logs))
    /\ Advance("sync_storage_logs_chunk")
    /\ UNCHANGED <<db_status, l1_batches, miniblocks, protocol_versions, factory_deps,
                   initial_writes, tree_entries, finalize_calls, extends_after_finalize,
                   blob_gets, state_keeper_runs, metadata_calculator_runs, clear_calls,
                   new_result, applied_snapshot_status, snapshot, peer_response, recovery, crashes, crash_in_chunk, stop_signal, fetcher, wiring>>

\* lines 268-273: the keys of the entries, scoped to the snapshot's l1 batch
InitialWriteRows(l1_batch_number, logs) ==
    {[l1_batch_number |-> l1_batch_number, key |-> l.key] : l \in Range(logs)}

\* lines 267-275
SyncInitialWritesChunk ==
    /\ pc = "sync_initial_writes_chunk"
    /\ initial_writes' = Add(initial_writes,
                             InitialWriteRows(Header.l1_batch_number,
                                              Unwrap(chunk).storage_logs))
    /\ Advance("sync_initial_writes_chunk")
    /\ UNCHANGED <<db_status, l1_batches, miniblocks, protocol_versions, factory_deps,
                   storage_logs, tree_entries, finalize_calls, extends_after_finalize,
                   blob_gets, state_keeper_runs, metadata_calculator_runs, clear_calls,
                   new_result, applied_snapshot_status, snapshot, peer_response, recovery, crashes, crash_in_chunk, stop_signal, fetcher, wiring>>

\* log.key.hashed_key_u256(): an injective map of the key
HashedKey(key) == 2 * key + 1

\* lines 294-301: RecoveryEntry {key, value, leaf_index}, stored at the version the
\* recovery handle was opened with
RecoveryEntries(version, logs) ==
    {[version |-> version, key |-> HashedKey(l.key), value |-> l.value,
      leaf_index |-> l.enumeration_index] : l \in Range(logs)}

\* lines 292-304: self.recovery.extend(..)
SyncTreeChunk ==
    /\ pc = "sync_tree_chunk"
    /\ tree_entries' = Add(tree_entries,
                           RecoveryEntries(Unwrap(recovery), Unwrap(chunk).storage_logs))
    /\ extends_after_finalize' =
           IF finalize_calls > 0 THEN extends_after_finalize + 1
           ELSE extends_after_finalize
    /\ Advance("sync_tree_chunk")
    /\ UNCHANGED <<db_status, l1_batches, miniblocks, protocol_versions, factory_deps,
                   storage_logs, initial_writes, finalize_calls, blob_gets,
                   state_keeper_runs, metadata_calculator_runs, clear_calls,
                   new_result, applied_snapshot_status, snapshot, peer_response, recovery, crashes, crash_in_chunk, stop_signal, fetcher, wiring>>

\* lines 352-357: the cursor is set in memory and the record is stored
SetAppliedSnapshotStatus ==
    /\ pc = "set_applied_snapshot_status"
    /\ LET status == [Unwrap(applied_snapshot_status) EXCEPT
                         !.last_finished_chunk_id = Some(ChunkMetadata.chunk_id)]
       IN  /\ applied_snapshot_status' = Some(status)
           /\ db_status' = Some(status)
    /\ Advance("set_applied_snapshot_status")
    /\ UNCHANGED <<l1_batches, miniblocks, protocol_versions, factory_deps, storage_logs,
                   initial_writes, tree_entries, finalize_calls, extends_after_finalize,
                   blob_gets, state_keeper_runs, metadata_calculator_runs, clear_calls,
                   new_result, snapshot, peer_response, recovery, crashes, crash_in_chunk, stop_signal, fetcher, wiring>>

SyncSingleChunk ==
    \/ Get
    \/ SyncFactoryDepsChunk
    \/ SyncStorageLogsChunk
    \/ SyncInitialWritesChunk
    \/ SyncTreeChunk
    \/ SetAppliedSnapshotStatus

(* ------------------ finalize_applying_snapshot ------------------------- *)

\* lines 368-371: self.recovery.finalize()
Finalize ==
    /\ pc = "finalize"
    /\ finalize_calls' = finalize_calls + 1
    /\ Advance("finalize")
    /\ UNCHANGED <<db_status, l1_batches, miniblocks, protocol_versions, factory_deps,
                   storage_logs, initial_writes, tree_entries, extends_after_finalize,
                   blob_gets, state_keeper_runs, metadata_calculator_runs, clear_calls,
                   new_result, applied_snapshot_status, snapshot, peer_response, recovery, crashes, crash_in_chunk, stop_signal, fetcher, wiring>>

\* lines 373-376: build_state_keeper, state_keeper.run(true).await.unwrap()
StateKeeperRun ==
    /\ pc = "state_keeper_run"
    /\ state_keeper_runs' = state_keeper_runs + 1
    /\ Advance("state_keeper_run")
    /\ UNCHANGED <<db_status, l1_batches, miniblocks, protocol_versions, factory_deps,
                   storage_logs, initial_writes, tree_entries, finalize_calls,
                   extends_after_finalize, blob_gets, metadata_calculator_runs,
                   clear_calls, new_result, applied_snapshot_status, snapshot, peer_response, recovery,
                   crashes, crash_in_chunk, stop_signal, fetcher, wiring>>

\* lines 377-396: MetadataCalculator::new, metadata_calculator.run(..).await.unwrap()
MetadataCalculatorRun ==
    /\ pc = "metadata_calculator_run"
    /\ metadata_calculator_runs' = metadata_calculator_runs + 1
    /\ Advance("metadata_calculator_run")
    /\ UNCHANGED <<db_status, l1_batches, miniblocks, protocol_versions, factory_deps,
                   storage_logs, initial_writes, tree_entries, finalize_calls,
                   extends_after_finalize, blob_gets, state_keeper_runs, clear_calls,
                   new_result, applied_snapshot_status, snapshot, peer_response, recovery, crashes, crash_in_chunk, stop_signal, fetcher, wiring>>

\* lines 398-403: is_finished = true, and the record is stored
MarkFinished ==
    /\ pc = "mark_finished"
    /\ LET status == [Unwrap(applied_snapshot_status) EXCEPT !.is_finished = TRUE]
       IN  /\ applied_snapshot_status' = Some(status)
           /\ db_status' = Some(status)
    /\ Advance("mark_finished")
    /\ UNCHANGED <<l1_batches, miniblocks, protocol_versions, factory_deps, storage_logs,
                   initial_writes, tree_entries, finalize_calls, extends_after_finalize,
                   blob_gets, state_keeper_runs, metadata_calculator_runs, clear_calls,
                   new_result, snapshot, peer_response, recovery, crashes, crash_in_chunk, stop_signal, fetcher, wiring>>

\* lines 360-366, 404: clear_dummy_snapshot_headers(l1_batch_number, miniblock_number)
ClearDummyHeaders ==
    /\ pc = "clear_dummy_headers"
    /\ clear_calls' = clear_calls + 1
    /\ Advance("clear_dummy_headers")
    /\ UNCHANGED <<db_status, l1_batches, miniblocks, protocol_versions, factory_deps,
                   storage_logs, initial_writes, tree_entries, finalize_calls,
                   extends_after_finalize, blob_gets, state_keeper_runs,
                   metadata_calculator_runs, new_result, applied_snapshot_status,
                   snapshot, peer_response, recovery, crashes, crash_in_chunk, stop_signal, fetcher, wiring>>

FinalizeApplyingSnapshot ==
    \/ Finalize
    \/ StateKeeperRun
    \/ MetadataCalculatorRun
    \/ MarkFinished
    \/ ClearDummyHeaders

LoadSnapshot ==
    \/ InsertDummyMiniblockHeader
    \/ InsertDummyL1BatchMetadata
    \/ SyncSingleChunk
    \/ FinalizeApplyingSnapshot

(* ------------------------- the process --------------------------------- *)

\* the positions inside load_snapshot, and the return of a successful new()
Running ==
    \/ pc \in Range(PreambleSteps) \cup Range(ChunkSteps) \cup Range(FinalizeSteps)
    \/ (pc = "new_returned" /\ new_result = "Ok")

\* sync_single_chunk has fetched the payload and has not returned yet
InsideChunk == pc \in Range(ChunkSteps) /\ pc # ChunkSteps[1]

\* the process is killed, or one of the unwrap()/expect() calls of load_snapshot
\* panics (peer, blob store or storage failure): what is in memory is lost
Crash ==
    /\ Running
    /\ crashes < MaxCrashes
    /\ crashes' = crashes + 1
    /\ crash_in_chunk' = (crash_in_chunk \/ InsideChunk)
    /\ pc' = "aborted"
    /\ VolatileReset
    /\ UNCHANGED <<persistent, stop_signal, fetcher, wiring>>

\* the node is started again and calls load_from_snapshot_if_needed
Restart ==
    /\ pc \in {"aborted", "done"}
    /\ pc' = "start"
    /\ VolatileReset
    /\ stop_signal' = FALSE
    /\ UNCHANGED <<persistent, crashes, crash_in_chunk, fetcher, wiring>>

\* the node's stop signal is raised while load_snapshot runs; neither
\* load_from_snapshot_if_needed nor SnapshotApplier takes a stop receiver, so no
\* statement of the recovery reads it
RaiseStop ==
    /\ Running
    /\ ~stop_signal
    /\ stop_signal' = TRUE
    /\ UNCHANGED <<persistent, volatile, crashes, crash_in_chunk, fetcher, wiring>>

Next ==
    \/ New
    \/ UnwrapNew
    \/ LoadSnapshot
    \/ Crash
    \/ Restart
    \/ RaiseStop

Spec == Init /\ [][Next]_vars

(* =============== MainNodeBatchFeeInputFetcher::run ====================== *)

\* the state of the snapshot recovery, which the fetcher and the wiring leave alone
applier == <<persistent, volatile, crashes, crash_in_chunk, stop_signal>>

\* where `loop` starts over after a sleep
LoopStartSkipsCheck == "fetch"

LoopStart == "check_stop"

\* fee_model_output.read() is granted while no write guard is held
ReadGrantedAlways == TRUE

ReadGranted == ~write_guard

\* fee_model_output.write() is granted while no guard is held
WriteGranted == ~write_guard /\ reader_pc = "idle"

\* if *stop_receiver.borrow() { break } ... Ok(())
CheckStop ==
    /\ run_pc = "check_stop"
    /\ IF stop_receiver
         THEN run_pc' = "returned" /\ run_result' = "Ok"
         ELSE run_pc' = "fetch" /\ run_result' = run_result
    /\ UNCHANGED <<fee_model_output, write_guard, stop_receiver, main_node_fee_params,
                   reader_pc, returned_params, last_fetched, prev_fetched,
                   fetches_after_stop, applier, wiring>>

\* a fetch answered after the signal was set, counted up to 2
CountFetch == IF stop_receiver /\ fetches_after_stop < 2
                THEN fetches_after_stop + 1
                ELSE fetches_after_stop

\* get_main_node_fee_params().await answers Ok(price)
FetchOk ==
    /\ run_pc = "fetch"
    /\ \E price \in FeeParamsAnswers :
         /\ main_node_fee_params' = Some(price)
         /\ last_fetched' = Some(price)
    /\ prev_fetched' = last_fetched
    /\ fetches_after_stop' = CountFetch
    /\ run_pc' = "write"
    /\ UNCHANGED <<fee_model_output, write_guard, run_result, stop_receiver,
                   reader_pc, returned_params, applier, wiring>>

\* get_main_node_fee_params().await answers Err(err): warn, sleep, continue
FetchErr ==
    /\ run_pc = "fetch"
    /\ fetches_after_stop' = CountFetch
    /\ run_pc' = "sleep"
    /\ UNCHANGED <<fee_model_output, write_guard, run_result, stop_receiver,
                   main_node_fee_params, reader_pc, returned_params, last_fetched,
                   prev_fetched, applier, wiring>>

\* self.fee_model_output.write().unwrap()
AcquireWrite ==
    /\ run_pc = "write"
    /\ WriteGranted
    /\ write_guard' = TRUE
    /\ run_pc' = "store"
    /\ UNCHANGED <<fee_model_output, run_result, stop_receiver, main_node_fee_params,
                   reader_pc, returned_params, last_fetched, prev_fetched,
                   fetches_after_stop, applier, wiring>>

\* *guard = main_node_fee_params: the first field of the struct is overwritten
StorePrices ==
    /\ run_pc = "store"
    /\ fee_model_output' =
         [fee_model_output EXCEPT
            !.l1_gas_price = Unwrap(main_node_fee_params).l1_gas_price]
    /\ run_pc' = "store_rest"
    /\ UNCHANGED <<write_guard, run_result, stop_receiver, main_node_fee_params,
                   reader_pc, returned_params, last_fetched, prev_fetched,
                   fetches_after_stop, applier, wiring>>

\* the rest of the struct is overwritten and the guard is dropped
StoreRest ==
    /\ run_pc = "store_rest"
    /\ fee_model_output' = Unwrap(main_node_fee_params)
    /\ write_guard' = FALSE
    /\ main_node_fee_params' = None
    /\ run_pc' = "sleep"
    /\ UNCHANGED <<run_result, stop_receiver, reader_pc, returned_params,
                   last_fetched, prev_fetched, fetches_after_stop, applier, wiring>>

\* tokio::time::sleep(SLEEP_INTERVAL).await, then the next iteration
Sleep ==
    /\ run_pc = "sleep"
    /\ run_pc' = LoopStart
    /\ UNCHANGED <<fee_model_output, write_guard, run_result, stop_receiver,
                   main_node_fee_params, reader_pc, returned_params, last_fetched,
                   prev_fetched, fetches_after_stop, applier, wiring>>

Run == CheckStop \/ FetchOk \/ FetchErr \/ AcquireWrite \/ StorePrices \/ StoreRest \/ Sleep

\* get_fee_model_params: self.fee_model_output.read().unwrap().clone()
GetFeeModelParams ==
    /\ reader_pc = "idle"
    /\ ReadGranted
    /\ returned_params' = Some(fee_model_output)
    /\ reader_pc' = "reading"
    /\ UNCHANGED <<fee_model_output, write_guard, run_pc, run_result, stop_receiver,
                   main_node_fee_params, last_fetched, prev_fetched,
                   fetches_after_stop, applier, wiring>>

\* the read guard is dropped and the clone is returned to the caller
GetFeeModelParamsReturns ==
    /\ reader_pc = "reading"
    /\ reader_pc' = "idle"
    /\ UNCHANGED <<fee_model_output, write_guard, run_pc, run_result, stop_receiver,
                   main_node_fee_params, returned_params, last_fetched, prev_fetched,
                   fetches_after_stop, applier, wiring>>

\* the node sets the stop signal; it is never set back
SendStop ==
    /\ ~stop_receiver
    /\ stop_receiver' = TRUE
    /\ UNCHANGED <<fee_model_output, write_guard, run_pc, run_result,
                   main_node_fee_params, reader_pc, returned_params, last_fetched,
                   prev_fetched, fetches_after_stop, applier, wiring>>

InitFetcher ==
    /\ RecoveryInit
    /\ l1_batches = EmptyBag
    /\ FetcherNew
    /\ ContextNew

NextFetcher ==
    \/ Run
    \/ GetFeeModelParams
    \/ GetFeeModelParamsReturns
    \/ SendStop

SpecFetcher == InitFetcher /\ [][NextFetcher]_vars

\* every request to the main node is answered or times out, a sleep ends, a caller
\* of get_fee_model_params finishes its clone and drops the read guard, and the
\* write guard is granted to a writer that keeps asking for it
SpecFetcherFair ==
    /\ SpecFetcher
    /\ WF_vars(CheckStop)
    /\ WF_vars(FetchOk \/ FetchErr)
    /\ SF_vars(AcquireWrite)
    /\ WF_vars(StorePrices)
    /\ WF_vars(StoreRest)
    /\ WF_vars(Sleep)
    /\ WF_vars(GetFeeModelParamsReturns)

(* ===================== ConsensusLayer::wire ============================ *)

\* the resources wire asks for in External mode before it takes the sender, in the
\* order of the get_resource calls
ExternalResources ==
    <<"MainNodeClientResource", "SyncStateResource", "ActionQueueSenderResource">>

\* Task::name of the two tasks
MainNodeConsensusTask == "consensus"

FetcherTask == "consensus_fetcher"

\* the call returns `result` for `layer`; it added `added` to the context
WireReturns(layer, result, added) ==
    /\ wire_calls < MaxWireCalls
    /\ wire_calls' = wire_calls + 1
    /\ wire_layer' = Some(layer)
    /\ wire_result' = result
    /\ tasks' = tasks \o added
    /\ UNCHANGED <<resources, applier, fetcher>>

\* context.get_resource::<MasterPoolResource>().await? fails
WireLacksPool ==
    /\ "MasterPoolResource" \notin resources
    /\ \E layer \in Layers : WireReturns(layer, "ResourceLacking", <<>>)
    /\ UNCHANGED sender_taken

\* .get().await? on the pool resource fails
WirePoolFails ==
    /\ "MasterPoolResource" \in resources
    /\ \E layer \in Layers : WireReturns(layer, "Internal(pool)", <<>>)
    /\ UNCHANGED sender_taken

\* Mode::Main, self.config is None
WireMainMissingConfig ==
    /\ "MasterPoolResource" \in resources
    /\ \E layer \in Layers :
         /\ layer.mode = "Main"
         /\ IsNone(layer.config)
         /\ WireReturns(layer, "Configuration", <<>>)
    /\ UNCHANGED sender_taken

\* Mode::Main, self.secrets is None
WireMainMissingSecrets ==
    /\ "MasterPoolResource" \in resources
    /\ \E layer \in Layers :
         /\ layer.mode = "Main"
         /\ IsSome(layer.config)
         /\ IsNone(layer.secrets)
         /\ WireReturns(layer, "Configuration", <<>>)
    /\ UNCHANGED sender_taken

\* Mode::Main, config.main_node(&secrets)? fails
WireMainInvalidConfig ==
    /\ "MasterPoolResource" \in resources
    /\ \E layer \in Layers :
         /\ layer.mode = "Main"
         /\ IsSome(layer.config)
         /\ IsSome(layer.secrets)
         /\ WireReturns(layer, "Internal(config)", <<>>)
    /\ UNCHANGED sender_taken

\* Mode::Main, the MainNodeConsensusTask is added
WireMainOk ==
    /\ "MasterPoolResource" \in resources
    /\ \E layer \in Layers :
         /\ layer.mode = "Main"
         /\ IsSome(layer.config)
         /\ IsSome(layer.secrets)
         /\ WireReturns(layer, "Ok", <<MainNodeConsensusTask>>)
    /\ UNCHANGED sender_taken

\* Mode::External, one of the three get_resource calls fails
WireExternalLacksResource ==
    /\ "MasterPoolResource" \in resources
    /\ \E name \in Range(ExternalResources) : name \notin resources
    /\ \E layer \in Layers :
         /\ layer.mode = "External"
         /\ WireReturns(layer, "ResourceLacking", <<>>)
    /\ UNCHANGED sender_taken

ExternalResourcesGot ==
    /\ "MasterPoolResource" \in resources
    /\ \A name \in Range(ExternalResources) : name \in resources

\* Unique::take leaves None in the resource
TakeLeavesSender == FALSE

TakeEmptiesResource == TRUE

\* Mode::External, .take() of the sender gives None
WireExternalSenderTaken ==
    /\ ExternalResourcesGot
    /\ sender_taken
    /\ \E layer \in Layers :
         /\ layer.mode = "External"
         /\ WireReturns(layer, "Configuration", <<>>)
    /\ UNCHANGED sender_taken

\* Mode::External, (Some(_), None): the sender was taken out of its resource and
\* is dropped with the call
WireExternalMissingSecrets ==
    /\ ExternalResourcesGot
    /\ ~sender_taken
    /\ sender_taken' = TakeEmptiesResource
    /\ \E layer \in Layers :
         /\ layer.mode = "External"
         /\ IsSome(layer.config)
         /\ IsNone(layer.secrets)
         /\ WireReturns(layer, "Configuration", <<>>)

\* Mode::External, the FetcherTask is added and owns the sender
WireExternalOk ==
    /\ ExternalResourcesGot
    /\ ~sender_taken
    /\ sender_taken' = TakeEmptiesResource
    /\ \E layer \in Layers :
         /\ layer.mode = "External"
         /\ (IsSome(layer.config) => IsSome(layer.secrets))
         /\ WireReturns(layer, "Ok", <<FetcherTask>>)

Wire ==
    \/ WireLacksPool
    \/ WirePoolFails
    \/ WireMainMissingConfig
    \/ WireMainMissingSecrets
    \/ WireMainInvalidConfig
    \/ WireMainOk
    \/ WireExternalLacksResource
    \/ WireExternalSenderTaken
    \/ WireExternalMissingSecrets
    \/ WireExternalOk

InitConsensus ==
    /\ RecoveryInit
    /\ l1_batches = EmptyBag
    /\ FetcherNew
    /\ ContextBuilt

NextConsensus == Wire

SpecConsensus == InitConsensus /\ [][NextConsensus]_vars

(* ======================= properties ==================================== *)

Finished == IsSome(db_status) /\ Unwrap(db_status).is_finished

Cursor == Unwrap(db_status).last_finished_chunk_id

ChunkIds == 0..(NumChunks - 1)

\* every row of chunk c of snapshot s is in the store / some row is
FactoryDepsWritten(s, c) ==
    \A r \in FactoryDepRows(SnapshotHeader(s).miniblock_number, ChunkFactoryDeps(s, c)) :
        BagIn(r, factory_deps)

StorageLogsWritten(s, c) ==
    \A r \in StorageLogRows(SnapshotHeader(s).miniblock_number, ChunkStorageLogs(s, c)) :
        BagIn(r, storage_logs)

StorageLogsTouched(s, c) ==
    \E r \in StorageLogRows(SnapshotHeader(s).miniblock_number, ChunkStorageLogs(s, c)) :
        BagIn(r, storage_logs)

InitialWritesWritten(s, c) ==
    \A r \in InitialWriteRows(SnapshotHeader(s).l1_batch_number, ChunkStorageLogs(s, c)) :
        BagIn(r, initial_writes)

InitialWritesTouched(s, c) ==
    \E r \in InitialWriteRows(SnapshotHeader(s).l1_batch_number, ChunkStorageLogs(s, c)) :
        BagIn(r, initial_writes)

TreeWritten(s, c) ==
    \A r \in RecoveryEntries(SnapshotHeader(s).l1_batch_number, ChunkStorageLogs(s, c)) :
        BagIn(r, tree_entries)

TreeTouched(s, c) ==
    \E r \in RecoveryEntries(SnapshotHeader(s).l1_batch_number, ChunkStorageLogs(s, c)) :
        BagIn(r, tree_entries)

ChunkWritten(s, c) ==
    /\ FactoryDepsWritten(s, c)
    /\ StorageLogsWritten(s, c)
    /\ InitialWritesWritten(s, c)
    /\ TreeWritten(s, c)

(* C1: the stored record has is_finished = true only after finalize was called  *)
(* and the state keeper run and then the metadata calculator run completed; the *)
(* three happen in that order, and no write (the one of new() included) sets    *)
(* the flag earlier.                                                            *)
C1_FinishedOnlyAfterBootstrap ==
    /\ metadata_calculator_runs <= state_keeper_runs
    /\ state_keeper_runs <= finalize_calls
    /\ Finished => metadata_calculator_runs >= 1

\* a recovery that was aborted once, restarted, and has stored is_finished = true
C1_Witness ==
    /\ Finished
    /\ crashes >= 1
    /\ finalize_calls >= 1
    /\ metadata_calculator_runs >= 1

\* sync_single_chunk stores the record (the step at set_applied_snapshot_status)
CursorWrite == pc = "set_applied_snapshot_status" /\ db_status' # db_status

(* C2: the stored last_finished_chunk_id is set to a chunk's id only when the   *)
(* factory deps, storage logs, dedup records and tree entries of the chunk      *)
(* being processed are all in their stores, and in no reachable state (an       *)
(* aborted process included) does the stored cursor name a chunk id whose four  *)
(* writes are missing.                                                          *)
C2_CursorAfterChunkData ==
    /\ [](IsSome(db_status) /\ IsSome(Cursor)
            => \E s \in Snapshots : ChunkWritten(s, Unwrap(Cursor)))
    /\ [][CursorWrite
            => /\ Unwrap(db_status').last_finished_chunk_id
                    = Some(ChunkMetadata.chunk_id)
               /\ ChunkWritten(Unwrap(snapshot), ChunkMetadata.chunk_id)]_vars

\* the process was aborted right after the cursor of the last chunk, which
\* carries a factory dependency, was stored
C2_Witness ==
    /\ pc = "aborted"
    /\ IsSome(db_status)
    /\ Cursor = Some(NumChunks - 1)
    /\ \E s \in Snapshots :
        /\ ChunkFactoryDeps(s, NumChunks - 1) # {}
        /\ ChunkWritten(s, NumChunks - 1)

\* a step of sync_single_chunk that fetches or writes something
ChunkStepTaken == pc \in Range(ChunkSteps) /\ persistent' # persistent

(* C3: with an unfinished stored record whose cursor is k, a chunk with id <= k *)
(* is neither fetched from the blob store nor written again: every fetch and    *)
(* every write of sync_single_chunk is for a chunk id greater than the stored   *)
(* cursor.                                                                      *)
C3_AppliedChunksSkipped ==
    [][ChunkStepTaken /\ IsSome(db_status) /\ IsSome(Cursor)
         => ChunkMetadata.chunk_id > Unwrap(Cursor)]_vars

\* Option<chunk id> ordered with None least
OptionLeq(a, b) == IsNone(a) \/ (IsSome(b) /\ Unwrap(a) <= Unwrap(b))

(* C4: the stored last_finished_chunk_id never decreases, whatever the sequence *)
(* of operations, aborts and restarts (None is the least value).                *)
C4_CursorNeverDecreases ==
    [][IsSome(db_status)
         => /\ IsSome(db_status')
            /\ OptionLeq(Cursor, Unwrap(db_status').last_finished_chunk_id)]_vars

\* what an uninterrupted recovery of snapshot s leaves in the tree and in the
\* dedup index: every entry of every chunk, once
TreeOfSnapshot(s) ==
    SetToBag(UNION {RecoveryEntries(SnapshotHeader(s).l1_batch_number,
                                    ChunkStorageLogs(s, c)) : c \in ChunkIds})

InitialWritesOfSnapshot(s) ==
    SetToBag(UNION {InitialWriteRows(SnapshotHeader(s).l1_batch_number,
                                     ChunkStorageLogs(s, c)) : c \in ChunkIds})

\* every chunk ever fetched was a chunk of snapshot s
OnlySnapshot(s) == \A g \in BagToSet(blob_gets) : g.snapshot = s

(* C5: a recovery that was killed between chunks (after any prefix of applied   *)
(* chunks) and restarted on the same snapshot ends with the tree and the dedup  *)
(* index an uninterrupted recovery ends with: each entry of each chunk is in    *)
(* them, inserted once.                                                         *)
C5_ResumeEqualsUninterrupted ==
    (pc = "done" /\ ~crash_in_chunk /\ OnlySnapshot(Unwrap(snapshot)))
      => /\ tree_entries = TreeOfSnapshot(Unwrap(snapshot))
         /\ initial_writes = InitialWritesOfSnapshot(Unwrap(snapshot))

\* a step in which SnapshotApplier::new runs to its end
NewTaken == pc = "start" /\ pc' # "start"

(* C6: new() returns Canceled and writes to no store (no progress record, no    *)
(* placeholder, no chunk data, no tree call) whenever (a) genesis is present    *)
(* and no progress record is stored, or (b) a finished progress record is       *)
(* stored.                                                                      *)
C6_CanceledWithoutWrites ==
    [][(/\ NewTaken
        /\ \/ (BagCardinality(l1_batches) > 0 /\ IsNone(db_status))
           \/ Finished)
         => /\ pc' = "new_returned"
            /\ new_result' = "Canceled"
            /\ persistent' = persistent]_vars

\* new() has refused to run on a node whose recovery had finished in an earlier
\* run of the process (case (b)); case (a) is the first step from the initial
\* state that holds genesis
C6_Witness ==
    /\ pc = "new_returned"
    /\ new_result = "Canceled"
    /\ Finished
    /\ clear_calls >= 1

(* C7: with an unfinished record stored, a discovered snapshot whose batch      *)
(* number differs from the record's makes recovery fail before anything is      *)
(* written: no applier ever holds a snapshot of a batch other than the stored   *)
(* record's, and new() never returns Ok for one.                                *)
C7_BatchMismatchIsFatal ==
    (IsSome(snapshot) /\ IsSome(db_status))
      => SnapshotHeader(Unwrap(snapshot)).l1_batch_number
            = Unwrap(db_status).l1_batch_number

(* C8: within one recovery, across aborts and restarts, finalize is called at   *)
(* most once (exactly once when is_finished is stored), and extend is never     *)
(* called after finalize.                                                       *)
C8_FinalizeOnceNoExtendAfter ==
    /\ finalize_calls <= 1
    /\ extends_after_finalize = 0
    /\ Finished => finalize_calls = 1

(* C9: on a restart no state but ApplyChunks is executed again once its writes  *)
(* are durable: the placeholder miniblock header and l1 batch are inserted at   *)
(* most once, and the state keeper and the metadata calculator bootstrap run at *)
(* most once.                                                                   *)
C9_OnlyApplyChunksReexecuted ==
    /\ BagCardinality(miniblocks) <= 1
    /\ \A s \in Snapshots : CopiesIn(SnapshotHeader(s).l1_batch_number, l1_batches) <= 1
    /\ state_keeper_runs <= 1
    /\ metadata_calculator_runs <= 1

\* a chunk that carries factory deps has some of them in the store
FactoryDepsTouched(s, c) ==
    \E r \in FactoryDepRows(SnapshotHeader(s).miniblock_number, ChunkFactoryDeps(s, c)) :
        BagIn(r, factory_deps)

(* C10: the writes of a chunk happen in the order factory deps, storage logs,   *)
(* dedup records, tree entries, cursor: in every state a later store holds an   *)
(* entry of a chunk only if every earlier store holds all the data of that      *)
(* chunk, and the cursor is stored only when the tree holds the chunk.          *)
C10_FixedWriteOrder ==
    /\ [](\A s \in Snapshots : \A c \in ChunkIds :
            /\ TreeTouched(s, c) => InitialWritesWritten(s, c)
            /\ InitialWritesTouched(s, c) => StorageLogsWritten(s, c)
            /\ StorageLogsTouched(s, c) => FactoryDepsWritten(s, c))
    /\ [][CursorWrite => TreeWritten(Unwrap(snapshot), ChunkMetadata.chunk_id)]_vars

\* an intermediate state of a chunk that carries a factory dependency: its
\* factory deps and storage logs are written, its dedup records and tree entries
\* are not yet
C10_Witness ==
    \E s \in Snapshots : \E c \in ChunkIds :
        /\ pc = "sync_initial_writes_chunk"
        /\ FactoryDepsTouched(s, c)
        /\ StorageLogsWritten(s, c)
        /\ ~InitialWritesTouched(s, c)
        /\ ~TreeTouched(s, c)

\* some row of snapshot s is in a chunk store
SnapshotDataTouched(s) ==
    \E c \in ChunkIds :
        \/ FactoryDepsTouched(s, c)
        \/ StorageLogsTouched(s, c)
        \/ InitialWritesTouched(s, c)
        \/ TreeTouched(s, c)

(* C11: no chunk data is written before the placeholder miniblock header and    *)
(* the placeholder l1 batch of the snapshot are inserted: in every reachable    *)
(* state a storage-log row (or factory dep, dedup record, tree entry) of a      *)
(* snapshot implies that its owning miniblock row and l1 batch row exist.       *)
C11_PlaceholdersBeforeChunkData ==
    \A s \in Snapshots :
        SnapshotDataTouched(s)
          => /\ BagIn(SnapshotHeader(s).miniblock_number, miniblocks)
             /\ BagIn(SnapshotHeader(s).l1_batch_number, l1_batches)

\* the first storage logs of a snapshot have just been written under its
\* placeholder miniblock
C11_Witness ==
    /\ pc = "sync_initial_writes_chunk"
    /\ chunk_idx = 1
    /\ StorageLogsWritten(Unwrap(snapshot), 0)
    /\ BagIn(Header.miniblock_number, miniblocks)
    /\ BagIn(Header.l1_batch_number, l1_batches)

\* the storage-log keys of all chunks of snapshot s
SnapshotKeys(s) ==
    UNION {{l.key : l \in Range(ChunkStorageLogs(s, c))} : c \in ChunkIds}

\* the (value, leaf index) pairs of all chunks of snapshot s
SnapshotLeaves(s) ==
    UNION {{<<l.value, l.enumeration_index>> : l \in Range(ChunkStorageLogs(s, c))} :
             c \in ChunkIds}

(* C12: after an uninterrupted recovery of a snapshot with batch number B and   *)
(* chunks 0..n-1, the tree holds exactly the storage-log entries of all chunks  *)
(* (one leaf each, at version B), the dedup index holds exactly one record per  *)
(* storage-log key, all of batch B, and the stored record is                    *)
(* (B, finished = true, last_finished_chunk_id = n-1).                          *)
C12_UninterruptedFinalState ==
    (pc = "done" /\ crashes = 0)
      => LET s == Unwrap(snapshot)
             B == SnapshotHeader(s).l1_batch_number
         IN  /\ BagCardinality(tree_entries) = Cardinality(SnapshotLeaves(s))
             /\ {<<e.value, e.leaf_index>> : e \in BagToSet(tree_entries)}
                    = SnapshotLeaves(s)
             /\ \A e \in BagToSet(tree_entries) : e.version = B
             /\ BagCardinality(initial_writes) = Cardinality(SnapshotKeys(s))
             /\ {w.key : w \in BagToSet(initial_writes)} = SnapshotKeys(s)
             /\ \A w \in BagToSet(initial_writes) : w.l1_batch_number = B
             /\ Cardinality(SnapshotKeys(s)) = NumChunks * LogsPerChunk
             /\ db_status = Some([l1_batch_number |-> B,
                                  is_finished |-> TRUE,
                                  last_finished_chunk_id |-> Some(NumChunks - 1)])

\* an uninterrupted recovery has returned
C12_Witness ==
    /\ pc = "done"
    /\ crashes = 0
    /\ Finished
    /\ BagCardinality(tree_entries) = NumChunks * LogsPerChunk
    /\ BagCardinality(initial_writes) = NumChunks * LogsPerChunk

\* a step in which the process dies: an unwrap()/expect() panics, or it is killed
Aborts == pc # "aborted" /\ pc' = "aborted"

\* the id of the chunk the running pass completed last, while it is in the loop
\* past its first chunk or past the loop
LastCompletedChunk ==
    IF pc \in Range(ChunkSteps)
    THEN Header.chunks[chunk_idx - 1].chunk_id
    ELSE Header.chunks[Len(Header.chunks)].chunk_id

C14_FinishedIsTerminal ==
    [][Finished => db_status' = db_status]_vars

\* the node is started again on a finished record
C14_Witness ==
    /\ pc = "start"
    /\ Finished
    /\ finalize_calls >= 1

(* C15: when new() returns Canceled, load_from_snapshot_if_needed does not      *)
(* abort: it returns normally and the caller goes on with its startup.          *)
C15_CanceledReturnsNormally ==
    [][(pc = "new_returned" /\ new_result = "Canceled") => pc' # "aborted"]_vars

(* C16: when the preconditions pass and the peer reports no snapshot, new()     *)
(* returns Canceled, the progress record is neither created nor modified and    *)
(* no other store is written.                                                   *)
C16_NoSnapshotCanceledWithoutWrites ==
    [][(NewTaken /\ peer_response' = Some(None))
         => /\ pc' = "new_returned"
            /\ new_result' = "Canceled"
            /\ persistent' = persistent]_vars

\* the peer has answered that it has no snapshot, with an unfinished record of an
\* aborted recovery stored
C16_Witness ==
    /\ pc = "new_returned"
    /\ peer_response = Some(None)
    /\ new_result = "Canceled"
    /\ IsSome(db_status)
    /\ ~Finished

(* C17: when new() returns Ok, the stored record is                             *)
(* (batch of the discovered snapshot, finished = false, cursor none) if none    *)
(* was stored before, and is the record stored before if an unfinished one was: *)
(* a second new() against the same snapshot changes nothing.                    *)
C17_NewStoresFreshOrKeepsRecord ==
    [][(NewTaken /\ new_result' = "Ok")
         => IF IsNone(db_status)
            THEN db_status'
                   = Some([l1_batch_number |->
                               SnapshotHeader(Unwrap(Unwrap(peer_response'))).l1_batch_number,
                           is_finished |-> FALSE,
                           last_finished_chunk_id |-> None])
            ELSE db_status' = db_status]_vars

\* new() has returned Ok on a stored record that holds a cursor
C17_Witness ==
    /\ pc = "new_returned"
    /\ new_result = "Ok"
    /\ IsSome(db_status)
    /\ IsSome(Cursor)
    /\ crashes >= 1

(* C18: the stop signal is observed between chunks: once it is raised while     *)
(* the chunks are applied, recovery does not fetch the next chunk (it stops     *)
(* with the cursor at the last completed chunk).  The other half of the claim,  *)
(* that the signal is not acted upon during finalize and bootstrap, asks        *)
(* nothing of a step.                                                           *)
C18_StopObservedBetweenChunks ==
    [][(stop_signal /\ pc = "get") => blob_gets' = blob_gets]_vars

\* the chunk ids the header of snapshot s lists
HeaderChunkIds(s) == {d.chunk_id : d \in Range(SnapshotHeader(s).chunks)}

(* C19: the tree is finalized only after every chunk descriptor of the header   *)
(* was applied: finalize is called only when the storage logs, dedup records,   *)
(* factory deps and tree entries of every chunk of the applier's snapshot are   *)
(* stored, also in a run that was started over a stored cursor; so wherever     *)
(* finalize has been called (and wherever finished = true) some snapshot is     *)
(* stored whole.                                                                *)
C19_FinalizeAfterAllChunks ==
    /\ []((finalize_calls >= 1 \/ Finished)
            => \E s \in Snapshots : \A c \in HeaderChunkIds(s) : ChunkWritten(s, c))
    /\ [][finalize_calls' > finalize_calls
            => \A c \in HeaderChunkIds(Unwrap(snapshot)) :
                   ChunkWritten(Unwrap(snapshot), c)]_vars

\* the first finalize was made by a run that was started over a stored cursor:
\* the earlier run was killed between chunk 0 and chunk 1, so chunk 0 was fetched
\* twice and chunk 1 once
C19_Witness ==
    /\ pc = "state_keeper_run"
    /\ finalize_calls = 1
    /\ crashes >= 1
    /\ ~crash_in_chunk
    /\ CopiesIn([snapshot |-> Unwrap(snapshot), chunk_id |-> 0], blob_gets) = 2
    /\ CopiesIn([snapshot |-> Unwrap(snapshot), chunk_id |-> 1], blob_gets) = 1
    /\ \A c \in HeaderChunkIds(Unwrap(snapshot)) : ChunkWritten(Unwrap(snapshot), c)

(* C20: every recovery that stores finished = true removes the temporary        *)
(* placeholder rows, also when the process dies between the is_finished write   *)
(* and clear_dummy_snapshot_headers and is started again: by the time a start   *)
(* of recovery is refused because the record is finished (after which nothing   *)
(* calls clear_dummy_snapshot_headers), the rows have been cleared.             *)
C20_PlaceholdersClearedOnceFinished ==
    (pc = "new_returned" /\ new_result = "Canceled" /\ Finished)
      => clear_calls >= 1

(* ------------------------------ C21 ------------------------------------ *)

\* a fetch was answered Ok and its parameters are not stored yet
StorePending == run_pc \in {"write", "store", "store_rest"}

\* the successful fetch whose parameters the fetcher holds
RecordedFetch == IF StorePending THEN prev_fetched ELSE last_fetched

ParamsOf(fetched) == IF IsNone(fetched) THEN DefaultFeeParams ELSE Unwrap(fetched)

(* C21: get_fee_model_params returns the defaults of new() while no fetch    *)
(* has succeeded and the parameters of the most recent successful fetch      *)
(* afterwards (a fetch counts once run has stored its answer); a caller      *)
(* running concurrently with run gets no other value, and a failed fetch     *)
(* leaves the stored parameters as they were.                                *)
C21_ReadersSeeDefaultsOrLastFetch ==
    /\ [](reader_pc = "reading" => Unwrap(returned_params) = ParamsOf(RecordedFetch))
    /\ [](~StorePending => fee_model_output = ParamsOf(last_fetched))
    /\ [][(run_pc = "fetch" /\ run_pc' = "sleep")
            => /\ fee_model_output' = fee_model_output
               /\ last_fetched' = last_fetched]_vars

\* a caller reads while run is about to store the second successful answer and
\* gets the first one
C21_Witness ==
    /\ reader_pc = "reading"
    /\ run_pc = "write"
    /\ IsSome(prev_fetched)
    /\ prev_fetched # last_fetched
    /\ returned_params = prev_fetched

(* ------------------------------ C22 ------------------------------------ *)

(* C22: run returns, with Ok, only when the stop signal is set; once it is   *)
(* set run returns after at most one more fetch, whether the fetches succeed *)
(* or fail.                                                                  *)
C22_RunStopsOnSignal ==
    /\ [](run_pc = "returned" => stop_receiver /\ run_result = "Ok")
    /\ [](fetches_after_stop <= 1)
    /\ (stop_receiver ~> run_pc = "returned")

\* run returned after a fetch that was answered after the signal, and no fetch of
\* this run succeeded
C22_Witness ==
    /\ run_pc = "returned"
    /\ run_result = "Ok"
    /\ fetches_after_stop = 1
    /\ IsNone(last_fetched)

(* ------------------------------ C23 ------------------------------------ *)

\* a call of wire returns in this step
WireCall == wire_calls' = wire_calls + 1

ConfigMissing(layer) == IsNone(layer.config) \/ IsNone(layer.secrets)

ConfigWithoutSecrets(layer) == IsSome(layer.config) /\ IsNone(layer.secrets)

FetcherTasks == {i \in DOMAIN tasks : tasks[i] = FetcherTask}

\* Ok adds exactly one task, a Configuration error adds none, and no two fetcher
\* tasks are ever added
WireTasks ==
    /\ [][WireCall =>
            /\ wire_result' = "Ok" => Len(tasks') = Len(tasks) + 1
            /\ wire_result' = "Configuration" => tasks' = tasks]_vars
    /\ [](Cardinality(FetcherTasks) <= 1)

(* C23 as stated: wire adds exactly one task when it returns Ok and none     *)
(* when it returns a Configuration error; in Main mode a missing config or   *)
(* secrets, and in External mode a config without secrets or a sender that   *)
(* was already taken, make it return a Configuration error; at most one      *)
(* fetcher task owns the sender.                                             *)
C23_WireConfigurationErrors ==
    /\ WireTasks
    /\ [][WireCall =>
            LET layer == Unwrap(wire_layer') IN
            /\ (layer.mode = "Main" /\ ConfigMissing(layer))
                 => wire_result' = "Configuration"
            /\ (layer.mode = "External" /\ (ConfigWithoutSecrets(layer) \/ sender_taken))
                 => wire_result' = "Configuration"]_vars

\* the get_resource calls and the pool.get() call wire makes before it looks at
\* its own fields all succeeded
LookupsSucceeded(layer) ==
    /\ wire_result' \notin {"ResourceLacking", "Internal(pool)"}
    /\ "MasterPoolResource" \in resources
    /\ layer.mode = "External" => ExternalResourcesGot

(* C23 amended: as above, for the calls in which every resource wire asks    *)
(* the context for before the check is provided and the pool is built.       *)
C23_WireConfigurationErrorsAfterLookups ==
    /\ WireTasks
    /\ [][WireCall =>
            LET layer == Unwrap(wire_layer') IN
            /\ (LookupsSucceeded(layer) /\ layer.mode = "Main" /\ ConfigMissing(layer))
                 => wire_result' = "Configuration"
            /\ (/\ LookupsSucceeded(layer)
                /\ layer.mode = "External"
                /\ (ConfigWithoutSecrets(layer) \/ sender_taken))
                 => wire_result' = "Configuration"]_vars

\* a second External layer without a config is refused because the fetcher task of
\* the first one owns the sender
C23_Witness ==
    /\ wire_calls = 2
    /\ tasks = <<FetcherTask>>
    /\ sender_taken
    /\ wire_result = "Configuration"
    /\ Unwrap(wire_layer).mode = "External"
    /\ IsNone(Unwrap(wire_layer).config)

====
